---- MODULE Spec2Model ----
(***************************************************************************)
(* A model of app.py, the ARETE item-analysis Streamlit application.       *)
(*                                                                         *)
(* The state is the Streamlit session: the two session_state flags, the    *)
(* page the last script run rendered, the two uploaded CSV tables, and     *)
(* what the last run of main_app computed and displayed.  Every user       *)
(* event (a button press, an upload, any other widget interaction) makes   *)
(* Streamlit run the whole script again; each action below is the event    *)
(* followed by that script run.                                            *)
(*                                                                         *)
(* Strings are tuples of one-character strings, so that str.lower() and    *)
(* str.startswith() are computed.  Floating-point values are exact         *)
(* rationals [nan, num, den]; NaN is the record with nan = TRUE.  The      *)
(* rounding error of IEEE arithmetic is not modelled: with the small       *)
(* denominators reached here no computed value lies within rounding        *)
(* distance of a threshold without being equal to it.                      *)
(***************************************************************************)
EXTENDS Integers, Sequences, FiniteSets, TLC

VARIABLES show_login, logged_in, page, responses_file, key_file, run

vars == <<show_login, logged_in, page, responses_file, key_file, run>>

(***************************************************************************)
(* Bounds of the model.                                                    *)
(***************************************************************************)
\* item columns of an uploaded table
MaxItems == 2
\* examinee rows of a freely filled response table
MaxRows == 2
\* examinee rows of a graded response table (TallTable)
MaxExaminees == 8
\* data rows of an uploaded key table
MaxKeyRows == 2

(***************************************************************************)
(* Generic helpers.                                                        *)
(***************************************************************************)
Min(a, b) == IF a <= b THEN a ELSE b

Max(a, b) == IF a >= b THEN a ELSE b

Abs(a) == IF a < 0 THEN -a ELSE a

RECURSIVE GCD(_, _)
GCD(a, b) == IF b = 0 THEN a ELSE GCD(b, a % b)

Range(s) == {s[i] : i \in 1..Len(s)}

Reverse(s) == [i \in 1..Len(s) |-> s[Len(s) + 1 - i]]

RECURSIVE SumSeq(_)
SumSeq(s) == IF s = <<>> THEN 0 ELSE s[1] + SumSeq(Tail(s))

(***************************************************************************)
(* Strings.                                                                *)
(***************************************************************************)
UpperCase == <<"A", "B", "C", "D", "E", "F", "G", "H", "I", "J", "K", "L", "M",
               "N", "O", "P", "Q", "R", "S", "T", "U", "V", "W", "X", "Y", "Z">>

LowerCase == <<"a", "b", "c", "d", "e", "f", "g", "h", "i", "j", "k", "l", "m",
               "n", "o", "p", "q", "r", "s", "t", "u", "v", "w", "x", "y", "z">>

\* str.lower()
Lower(s) ==
    [i \in 1..Len(s) |->
        IF \E j \in 1..Len(UpperCase) : UpperCase[j] = s[i]
        THEN LowerCase[CHOOSE j \in 1..Len(UpperCase) : UpperCase[j] = s[i]]
        ELSE s[i]]

\* str.startswith(prefix)
StartsWith(s, prefix) ==
    /\ Len(s) >= Len(prefix)
    /\ SubSeq(s, 1, Len(prefix)) = prefix

(***************************************************************************)
(* Rationals standing for Python / numpy floats.                           *)
(***************************************************************************)
NaN == [nan |-> TRUE, num |-> 0, den |-> 1]

Rat(n, d) ==
    IF d = 0 THEN NaN
    ELSE LET s == IF d < 0 THEN -1 ELSE 1
             c == GCD(Abs(n), Abs(d))
         IN  [nan |-> FALSE, num |-> (s * n) \div c, den |-> (s * d) \div c]

RInt(n) == Rat(n, 1)

RAdd(x, y) ==
    IF x.nan \/ y.nan THEN NaN
    ELSE Rat(x.num * y.den + y.num * x.den, x.den * y.den)

RSub(x, y) ==
    IF x.nan \/ y.nan THEN NaN
    ELSE Rat(x.num * y.den - y.num * x.den, x.den * y.den)

RMul(x, y) ==
    IF x.nan \/ y.nan THEN NaN
    ELSE Rat(x.num * y.num, x.den * y.den)

\* float division where the divisor is known not to be zero, or NaN results
RDiv(x, y) ==
    IF x.nan \/ y.nan THEN NaN
    ELSE Rat(x.num * y.den, x.den * y.num)

\* x <= c/100 and x >= c/100; every comparison with NaN is False
LeqH(x, c) == ~x.nan /\ 100 * x.num <= c * x.den

GeqH(x, c) == ~x.nan /\ 100 * x.num >= c * x.den

LtH(x, c) == ~x.nan /\ 100 * x.num < c * x.den

REq(x, y) == ~x.nan /\ ~y.nan /\ x.num * y.den = y.num * x.den

RECURSIVE RSum(_)
RSum(s) == IF s = <<>> THEN RInt(0) ELSE RAdd(s[1], RSum(Tail(s)))

\* round(x, 3): the nearest multiple of 0.001, ties to the even one; the
\* result is kept as a rational, NaN stays NaN
Round3(x) ==
    IF x.nan THEN NaN
    ELSE LET twice == 2000 * x.num + x.den
             q == twice \div (2 * x.den)
             tie == twice % (2 * x.den) = 0
             m == IF tie /\ q % 2 # 0 THEN q - 1 ELSE q
         IN  Rat(m, 1000)

(***************************************************************************)
(* Column names, cell values and the tables a user can upload.             *)
(***************************************************************************)
Digits == <<"1", "2", "3", "4", "5", "6", "7", "8", "9">>

\* "Item1", "item2", "ITEM3", "Item4", ...: the spellings a header may use
ItemName(i) ==
    CASE i % 3 = 1 -> <<"I", "t", "e", "m", Digits[i]>>
      [] i % 3 = 2 -> <<"i", "t", "e", "m", Digits[i]>>
      [] OTHER     -> <<"I", "T", "E", "M", Digits[i]>>

\* a response column that is not an item, and a key column that is none
NameCol == <<"N", "a", "m", "e">>

ExtraCol == <<"N", "o", "t", "e">>

\* the header of a two-column (item name, correct answer) key
MappingHeader == << <<"I", "t", "e", "m">>, <<"A", "n", "s", "w", "e", "r">> >>

Answers == { <<"A">>, <<"B">> }

OtherCells == { <<"x">> }

ItemHeader(k) == [i \in 1..k |-> ItemName(i)]

ItemNames == {ItemName(i) : i \in 1..(MaxItems + 1)}

NoFile == [present |-> FALSE, cols |-> <<>>, rows |-> <<>>]

Table(cols, rows) == [present |-> TRUE, cols |-> cols, rows |-> rows]

\* the values a cell of column c may hold in an uploaded response table
RespCells(c) == IF c \in ItemNames THEN Answers ELSE OtherCells

RespRows(h) == {r \in [1..Len(h) -> Answers \cup OtherCells] :
                    \A j \in 1..Len(h) : r[j] \in RespCells(h[j])}

RespHeaders ==
    {ItemHeader(k) : k \in 1..MaxItems}
        \cup {<<NameCol>> \o ItemHeader(k) : k \in {0, 1}}

\* every response table of at most MaxRows rows over these headers
SmallTables ==
    UNION {UNION {{Table(h, rows) : rows \in [1..n -> RespRows(h)]} :
                    n \in 0..MaxRows} : h \in RespHeaders}

\* a larger class sitting an examination of MaxItems + 1 items: examinee r
\* (in upload order) answers "A" on item j exactly if bit j of r - 1 is set,
\* "B" otherwise
TallTable(n) ==
    Table(ItemHeader(MaxItems + 1),
          [r \in 1..n |-> [j \in 1..(MaxItems + 1) |->
              IF ((r - 1) \div (2 ^ (j - 1))) % 2 = 1 THEN <<"A">>
              ELSE <<"B">>]])

TallTables == {TallTable(n) : n \in (MaxRows + 1)..MaxExaminees}

ResponseTables == SmallTables \cup TallTables

\* key tables whose columns are named as items: the one-row keys with every
\* choice of answers, and for every header (items in either order, possibly
\* with a further column) the keys of 0..MaxKeyRows rows that alternate
\* "A" and "B"
KeyHeaders ==
    {ItemHeader(k) : k \in 1..MaxItems}
        \cup {Reverse(ItemHeader(MaxItems))}
        \cup {ItemHeader(k) \o <<ExtraCol>> : k \in 1..MaxItems}

ColumnKeys ==
    {Table(ItemHeader(Len(first)), <<first>>) :
        first \in UNION {[1..k -> Answers] : k \in 1..MaxItems}}
    \cup {Table(h, [i \in 1..n |-> [j \in 1..Len(h) |->
                IF (i + j) % 2 = 0 THEN <<"A">> ELSE <<"B">>]]) :
            h \in KeyHeaders, n \in 0..MaxKeyRows}

\* the two one-row keys of the larger examination
TallKeys ==
    {Table(ItemHeader(MaxItems + 1), << [j \in 1..(MaxItems + 1) |-> c] >>) :
        c \in Answers}

\* two-column keys: one (item name, answer) row per item, in either order
MappingKeys ==
    UNION {UNION {{Table(MappingHeader,
                         [i \in 1..k |-> <<order[i], ans[i]>>]) :
                        ans \in [1..k -> Answers]} :
                    order \in {ItemHeader(k), Reverse(ItemHeader(k))}} :
            k \in 1..MaxItems}

KeyTables == ColumnKeys \cup TallKeys \cup MappingKeys

(***************************************************************************)
(* UTILITIES of app.py.                                                    *)
(***************************************************************************)
difficulty_label(p) ==
    IF LeqH(p, 20) THEN "Very Difficult"
    ELSE IF LeqH(p, 40) THEN "Difficult"
    ELSE IF LeqH(p, 60) THEN "Moderately Difficult"
    ELSE IF LeqH(p, 80) THEN "Easy"
    ELSE "Very Easy"

discrimination_label(d) ==
    IF LeqH(d, -60) THEN "Questionable"
    ELSE IF LeqH(d, -20) THEN "Not Discriminating"
    ELSE IF LeqH(d, 20) THEN "Moderately Discriminating"
    ELSE IF LeqH(d, 60) THEN "Discriminating"
    ELSE "Very Discriminating"

final_decision(p, d) ==
    IF GeqH(d, 20) /\ GeqH(p, 26) /\ LeqH(p, 75) THEN "Retained"
    ELSE IF LtH(d, 20) /\ GeqH(p, 26) /\ LeqH(p, 75) THEN "Revised"
    ELSE "Rejected"

\* Series.mean(): the mean of no value is NaN
Mean(xs) == RDiv(RInt(SumSeq(xs)), RInt(Len(xs)))

\* Series.var(ddof=1): NaN for fewer than two values
Var(xs) ==
    IF Len(xs) <= 1 THEN NaN
    ELSE LET m == Mean(xs)
             dev == [i \in 1..Len(xs) |->
                        RMul(RSub(RInt(xs[i]), m), RSub(RInt(xs[i]), m))]
         IN  RDiv(RSum(dev), RInt(Len(xs) - 1))

\* df is the sequence of rows of 0/1 cells, k its number of columns
kr20(df, k) ==
    IF k < 2 THEN NaN
    ELSE LET p == [j \in 1..k |-> Mean([i \in 1..Len(df) |-> df[i][j]])]
             pq == RSum([j \in 1..k |-> RMul(p[j], RSub(RInt(1), p[j]))])
             total_var == Var([i \in 1..Len(df) |-> SumSeq(df[i])])
         IN  IF REq(total_var, RInt(0)) THEN NaN
             ELSE RMul(Rat(k, k - 1), RSub(RInt(1), RDiv(pq, total_var)))

kr_label(alpha) ==
    IF GeqH(alpha, 90) THEN "Excellent"
    ELSE IF GeqH(alpha, 80) THEN "Good"
    ELSE IF GeqH(alpha, 70) THEN "Acceptable"
    ELSE IF GeqH(alpha, 60) THEN "Questionable"
    ELSE IF GeqH(alpha, 50) THEN "Poor"
    ELSE "Unacceptable"

(***************************************************************************)
(* pandas operations used by main_app.                                     *)
(***************************************************************************)
\* [c for c in responses.columns if c.lower().startswith("item")]
IsItemColumn(c) == StartsWith(Lower(c), <<"i", "t", "e", "m">>)

ItemColumns(cols) == SelectSeq(cols, IsItemColumn)

Pos(cols, c) == CHOOSE j \in 1..Len(cols) : cols[j] = c

\* df[names] raises KeyError unless every name is a column of df
HasColumns(cols, names) == \A c \in Range(names) : c \in Range(cols)

\* the rows of df[names]
SelectRows(t, names) ==
    [i \in 1..Len(t.rows) |->
        [j \in 1..Len(names) |-> t.rows[i][Pos(t.cols, names[j])]]]

\* (responses == key.iloc[0]).astype(int), with the Total column; index is
\* the row label pandas keeps through the sort (0 for the first data row)
Score(resp, keyrow) ==
    [i \in 1..Len(resp) |->
        LET cells == [j \in 1..Len(keyrow) |->
                        IF resp[i][j] = keyrow[j] THEN 1 ELSE 0]
        IN  [index |-> i - 1, cells |-> cells, Total |-> SumSeq(cells)]]

\* a sort that leaves ascending at its default: smallest Total first
RECURSIVE SortOutcomesAscending(_)
SortOutcomesAscending(rows) ==
    IF rows = {} THEN {<<>>}
    ELSE LET first == {r \in rows : \A o \in rows : r.Total <= o.Total}
         IN  UNION {{<<r>> \o rest : rest \in SortOutcomesAscending(rows \ {r})} :
                        r \in first}

\* sort_values("Total", ascending=False) with the default kind="quicksort",
\* which pandas documents as not stable: rows of larger Total come first and
\* rows of equal Total come in whatever order the build's sort leaves them
RECURSIVE SortOutcomes(_)
SortOutcomes(rows) ==
    IF rows = {} THEN {<<>>}
    ELSE LET first == {r \in rows : \A o \in rows : r.Total >= o.Total}
         IN  UNION {{<<r>> \o rest : rest \in SortOutcomes(rows \ {r})} :
                        r \in first}

\* DataFrame.head(g) and DataFrame.tail(g)
HeadRows(df, g) == SubSeq(df, 1, Min(g, Len(df)))

\* a tail that takes one row too many
TailRowsWide(df, g) == SubSeq(df, Max(1, Len(df) - g), Len(df))

TailRows(df, g) == SubSeq(df, Max(1, Len(df) - g + 1), Len(df))

\* max(1, math.floor(0.27 * n)); the double 0.27 lies above 27/100 by less
\* than 2^-55, so the floor is that of 27n/100
GroupSize(n) == Max(1, (27 * n) \div 100)

\* top[item].sum()
ColumnSum(df, j) == SumSeq([i \in 1..Len(df) |-> df[i].cells[j]])

(***************************************************************************)
(* What one run of main_app leaves behind.                                 *)
(***************************************************************************)
NoReliability == [value |-> NaN, label |-> "none"]

NoSummary == [P |-> NaN, PLabel |-> "none", D |-> NaN, DLabel |-> "none"]

\* outcome "idle": the script ran without reaching the analysis
NoRun ==
    [outcome |-> "idle", item_cols |-> <<>>, scored |-> <<>>, n |-> 0,
     g |-> 0, top |-> <<>>, bottom |-> <<>>, U |-> <<>>, L |-> <<>>,
     results |-> <<>>, reliability |-> NoReliability, summary |-> NoSummary,
     displayed |-> {}]

\* an uncaught exception before anything of the report was displayed
Raised(exception) == [NoRun EXCEPT !.outcome = exception]

\* lines 206-295, for one outcome of the sort
Analyse(item_cols, scored) ==
    LET n == Len(scored)
        g == GroupSize(n)
        top == HeadRows(scored, g)
        bottom == TailRows(scored, g)
        k == Len(item_cols)
        U == [j \in 1..k |-> ColumnSum(top, j)]
        L == [j \in 1..k |-> ColumnSum(bottom, j)]
        p == [j \in 1..k |-> Rat(U[j] + L[j], 2 * g)]
        d == [j \in 1..k |-> Rat(U[j] - L[j], g)]
        results == [j \in 1..k |->
            [Item |-> item_cols[j],
             P |-> Round3(p[j]),
             PLabel |-> difficulty_label(p[j]),
             D |-> Round3(d[j]),
             DLabel |-> discrimination_label(d[j]),
             Decision |-> final_decision(p[j], d[j])]]
        alpha == kr20([i \in 1..n |-> scored[i].cells], k)
        reliability == [value |-> Round3(alpha), label |-> kr_label(alpha)]
        overall_p == RDiv(RSum([j \in 1..k |-> results[j].P]), RInt(k))
        overall_d == RDiv(RSum([j \in 1..k |-> results[j].D]), RInt(k))
        summary == [P |-> Round3(overall_p),
                    PLabel |-> difficulty_label(overall_p),
                    D |-> Round3(overall_d),
                    DLabel |-> discrimination_label(overall_d)]
        shown == [outcome |-> "report", item_cols |-> item_cols,
                  scored |-> scored, n |-> n, g |-> g, top |-> top,
                  bottom |-> bottom, U |-> U, L |-> L, results |-> results,
                  reliability |-> reliability, summary |-> NoSummary,
                  displayed |-> {"results", "reliability"}]
    IN  \* sum(...) / len(results) with no result raises ZeroDivisionError
        \* after the two tables above it were displayed
        IF k = 0 THEN [shown EXCEPT !.outcome = "ZeroDivisionError"]
        ELSE [shown EXCEPT !.summary = summary,
                           !.displayed = @ \cup {"summary"}]

\* main_app: the set of runs the two uploads can produce
main_app(responses, key) ==
    IF ~(responses.present /\ key.present) THEN {NoRun}
    ELSE LET item_cols == ItemColumns(responses.cols)
         IN  IF ~HasColumns(key.cols, item_cols) THEN {Raised("KeyError")}
             ELSE IF Len(key.rows) = 0 THEN {Raised("IndexError")}
             ELSE LET resp == SelectRows(responses, item_cols)
                      keyrow == SelectRows(key, item_cols)[1]
                      scored == Score(resp, keyrow)
                  IN  {Analyse(item_cols, sorted) :
                          sorted \in SortOutcomes(Range(scored))}

(***************************************************************************)
(* APP FLOW: one run of the script.                                        *)
(***************************************************************************)
\* a flow that forgets the login page
PageForSkipLogin(show, logged) == IF ~show THEN "landing" ELSE "dashboard"

PageFor(show, logged) ==
    IF ~show THEN "landing"
    ELSE IF ~logged THEN "login"
    ELSE "dashboard"

\* the script run that follows every event, with the state the event left
Script(show, logged, responses, key) ==
    /\ page' = PageFor(show, logged)
    /\ run' \in IF PageFor(show, logged) = "dashboard"
                THEN main_app(responses, key)
                ELSE {NoRun}

Init ==
    /\ show_login = FALSE
    /\ logged_in = FALSE
    /\ page = "landing"
    /\ responses_file = NoFile
    /\ key_file = NoFile
    /\ run = NoRun

\* landing_page: the "Proceed to Faculty Login" button
PressProceed ==
    /\ page = "landing"
    /\ show_login' = TRUE
    /\ UNCHANGED <<logged_in, responses_file, key_file>>
    /\ Script(TRUE, logged_in, responses_file, key_file)

\* login_page: the "Login" button, whatever was typed
PressLogin ==
    /\ page = "login"
    /\ logged_in' = TRUE
    /\ UNCHANGED <<show_login, responses_file, key_file>>
    /\ Script(show_login, TRUE, responses_file, key_file)

\* main_app: a CSV put into the empty first file_uploader (a file is
\* replaced by removing it and uploading the other)
UploadResponses ==
    /\ page = "dashboard"
    /\ ~responses_file.present
    /\ \E t \in ResponseTables :
        /\ responses_file' = t
        /\ Script(show_login, logged_in, t, key_file)
    /\ UNCHANGED <<show_login, logged_in, key_file>>

\* main_app: a CSV put into the empty second file_uploader
UploadKey ==
    /\ page = "dashboard"
    /\ ~key_file.present
    /\ \E t \in KeyTables :
        /\ key_file' = t
        /\ Script(show_login, logged_in, responses_file, t)
    /\ UNCHANGED <<show_login, logged_in, responses_file>>

\* main_app: the uploaded responses removed from their file_uploader
RemoveResponses ==
    /\ page = "dashboard"
    /\ responses_file.present
    /\ responses_file' = NoFile
    /\ Script(show_login, logged_in, NoFile, key_file)
    /\ UNCHANGED <<show_login, logged_in, key_file>>

\* main_app: the uploaded key removed from its file_uploader
RemoveKey ==
    /\ page = "dashboard"
    /\ key_file.present
    /\ key_file' = NoFile
    /\ Script(show_login, logged_in, responses_file, NoFile)
    /\ UNCHANGED <<show_login, logged_in, responses_file>>

\* any other widget interaction (a text input, a selectbox): the script
\* runs again on the same session state and the same uploads
Rerun ==
    /\ UNCHANGED <<show_login, logged_in, responses_file, key_file>>
    /\ Script(show_login, logged_in, responses_file, key_file)

Next ==
    \/ PressProceed
    \/ PressLogin
    \/ UploadResponses
    \/ UploadKey
    \/ RemoveResponses
    \/ RemoveKey
    \/ Rerun

Spec == Init /\ [][Next]_vars

(***************************************************************************)
(* Properties.                                                             *)
(***************************************************************************)
\* the script reached the analysis: both uploads were there
Analysed == page = "dashboard" /\ responses_file.present /\ key_file.present

\* an ordinary upload: the responses have item columns and examinee rows
Ordinary ==
    /\ ItemColumns(responses_file.cols) # <<>>
    /\ Len(responses_file.rows) >= 1

\* the run built the scored matrix and went through lines 206-263
Scored == run.outcome \in {"report", "ZeroDivisionError"}

ItemIndexP(j) == Rat(run.U[j] + run.L[j], 2 * run.g)

ItemIndexD(j) == Rat(run.U[j] - run.L[j], run.g)

InBand(p) == GeqH(p, 26) /\ LeqH(p, 75)

\* the rule of the design document (section 4.4)
DocumentedDecision(p, d) ==
    IF GeqH(d, 20) /\ InBand(p) THEN "Retained"
    ELSE IF (LtH(d, 20) /\ InBand(p)) \/ (GeqH(d, 20) /\ ~InBand(p))
         THEN "Revised"
    ELSE "Rejected"

\* C1: every displayed item carries the decision of the documented rule:
\* Retained for D >= 0.20 with P in [0.26, 0.75], Revised when exactly one of
\* the two conditions holds, Rejected when neither does.
C1_DecisionRule ==
    Scored =>
        \A j \in 1..Len(run.results) :
            run.results[j].Decision =
                DocumentedDecision(ItemIndexP(j), ItemIndexD(j))

\* C2: a key table with neither exactly one data row nor exactly two columns
\* ends the run in an error state with nothing displayed (any exception is
\* taken for the error state; the program has none named InvalidKeyFormat).
\* Stated for ordinary responses, where the run has no other reason to fail.
C2_InvalidKeyFormat ==
    (Analysed /\ Ordinary /\ Len(key_file.rows) # 1 /\ Len(key_file.cols) # 2) =>
        /\ run.outcome \notin {"report", "idle"}
        /\ run.displayed = {}
        /\ run.results = <<>>

NumericLabels ==
    {"Excellent", "Good", "Acceptable", "Questionable", "Poor", "Unacceptable"}

SameTotals == \A i, j \in 1..Len(run.scored) :
                  run.scored[i].Total = run.scored[j].Total

\* C3: with fewer than two item columns, or with two or more examinees whose
\* totals are all equal, the run completes, the KR-20 value is the undefined
\* sentinel and its label is none of the labels of a numeric coefficient.
\* Stated for ordinary responses.
C3_UndefinedReliability ==
    (Scored /\ Ordinary
        /\ (Len(run.item_cols) < 2 \/ (run.n >= 2 /\ SameTotals))) =>
        /\ run.outcome = "report"
        /\ run.reliability.value.nan
        /\ run.reliability.label \notin NumericLabels

\* C4: a response table without examinee rows aborts the run before any
\* per-item statistic is computed or displayed.  Stated for responses that
\* have item columns.
C4_DegenerateGroupSize ==
    (Analysed /\ ItemColumns(responses_file.cols) # <<>>
        /\ Len(responses_file.rows) = 0) =>
        /\ run.outcome \notin {"report", "idle"}
        /\ run.results = <<>>
        /\ "results" \notin run.displayed

\* a two-column key that names every item column of the responses once
CoversItems(key, item_cols) ==
    /\ key.cols = MappingHeader
    /\ item_cols # <<>>
    /\ Len(key.rows) = Len(item_cols)
    /\ {r[1] : r \in Range(key.rows)} = Range(item_cols)

\* the single-row key that encodes the same answers
CanonicalKey(key, item_cols) ==
    Table(item_cols,
          << [j \in 1..Len(item_cols) |->
                (CHOOSE r \in Range(key.rows) : r[1] = item_cols[j])[2]] >>)

\* C5: a two-column (item name, answer) key, in any row order, gives a
\* report whose per-item results are those of the equivalent single-row key.
\* Stated for ordinary responses.
C5_KeyShapeEquivalence ==
    (Analysed /\ Ordinary /\ CoversItems(key_file, ItemColumns(responses_file.cols))) =>
        /\ run.outcome = "report"
        /\ \E single \in main_app(responses_file,
                CanonicalKey(key_file, ItemColumns(responses_file.cols))) :
              /\ single.outcome = "report"
              /\ single.results = run.results

InKeyColumns(c) == c \in Range(key_file.cols)

\* the item columns of the responses that the key has too, in response order
CommonItems == SelectSeq(ItemColumns(responses_file.cols), InKeyColumns)

\* C6: with a single-row key the analysis is carried out over exactly the
\* common items, one result row each in response column order, and the run
\* fails only when there is no common item.  Stated for ordinary responses.
C6_CommonItems ==
    (Analysed /\ Ordinary /\ Len(key_file.rows) = 1) =>
        IF CommonItems = <<>>
        THEN run.outcome \notin {"report", "idle"}
        ELSE /\ run.outcome = "report"
             /\ [j \in 1..Len(run.results) |-> run.results[j].Item]
                    = CommonItems

\* C7: for n >= 1 examinees g = max(1, floor(0.27 n)) lies in 1..n, the
\* matrix is the uploaded rows in descending order of Total, Upper is its
\* first g rows and Lower its last g rows, no Upper total is below a Lower
\* total, and the groups share a row only when 2g > n.
C7_ExtremeGroups ==
    (Scored /\ run.n >= 1) =>
        LET n == run.n
            g == run.g
        IN  /\ n = Len(responses_file.rows)
            /\ g >= 1 /\ g <= n
            /\ (g = 1 \/ 100 * g <= 27 * n) /\ (100 * (g + 1) > 27 * n)
            /\ Len(run.scored) = n
            /\ {r.index : r \in Range(run.scored)} = 0..(n - 1)
            /\ \A i \in 1..(n - 1) :
                    run.scored[i].Total >= run.scored[i + 1].Total
            /\ run.top = [i \in 1..g |-> run.scored[i]]
            /\ run.bottom = [i \in 1..g |-> run.scored[n - g + i]]
            /\ \A u \in Range(run.top), l \in Range(run.bottom) :
                    u.Total >= l.Total
            /\ (Range(run.top) \cap Range(run.bottom) # {}) => 2 * g > n

C7_Witness ==
    /\ run.outcome = "report"
    /\ run.g >= 2
    /\ Range(run.top) \cap Range(run.bottom) = {}
    /\ \E u \in Range(run.top), l \in Range(run.bottom) : u.Total > l.Total

\* C8: examinees of equal Total keep their upload order in the sorted
\* matrix: the earlier row is never placed after the later one.
C8_StableSort ==
    run.outcome = "report" =>
        \A i, j \in 1..Len(run.scored) :
            (i < j /\ run.scored[i].Total = run.scored[j].Total)
                => run.scored[i].index < run.scored[j].index

\* C9: for n >= 1 every scored cell is 0 or 1, U and L lie in 0..g, P lies in
\* [0, 1] and D in [-1, 1] (as computed and as displayed), and with a single
\* examinee both groups are that examinee and D = 0 for every item.
C9_IndexRanges ==
    (Scored /\ run.n >= 1) =>
        /\ \A r \in Range(run.scored) : \A c \in Range(r.cells) : c \in {0, 1}
        /\ \A j \in 1..Len(run.item_cols) :
            /\ run.U[j] \in 0..run.g
            /\ run.L[j] \in 0..run.g
            /\ GeqH(ItemIndexP(j), 0) /\ LeqH(ItemIndexP(j), 100)
            /\ GeqH(ItemIndexD(j), -100) /\ LeqH(ItemIndexD(j), 100)
        /\ \A j \in 1..Len(run.results) :
            /\ run.results[j].P = Round3(ItemIndexP(j))
            /\ run.results[j].D = Round3(ItemIndexD(j))
            /\ GeqH(run.results[j].P, 0) /\ LeqH(run.results[j].P, 100)
            /\ GeqH(run.results[j].D, -100) /\ LeqH(run.results[j].D, 100)
        /\ run.n = 1 =>
            /\ run.top = run.bottom
            /\ \A j \in 1..Len(run.results) : run.results[j].D = RInt(0)

C9_Witness ==
    /\ run.outcome = "report"
    /\ run.g >= 2
    /\ \E j \in 1..Len(run.results) :
        /\ run.U[j] = run.g
        /\ run.L[j] = 0
        /\ run.results[j].D = RInt(1)
    /\ \E j \in 1..Len(run.results) :
        /\ run.U[j] = 1
        /\ run.L[j] = 1
        /\ run.results[j].P = Rat(1, 2)

\* C10: logged_in implies show_login; the dashboard is rendered only with
\* both flags set; logged_in is set only by a step from the login page,
\* which is rendered only once show_login is set; no flag is ever reset, and
\* once the dashboard was rendered every later run renders it again.
C10_PageFlow ==
    /\ [](logged_in => show_login)
    /\ [](page = "dashboard" => (show_login /\ logged_in))
    /\ [](page = "login" => show_login)
    /\ [][(~logged_in /\ logged_in') => page = "login"]_vars
    /\ [][(show_login => show_login') /\ (logged_in => logged_in')]_vars
    /\ [][page = "dashboard" => page' = "dashboard"]_vars

C10_Witness ==
    /\ page = "dashboard"
    /\ show_login /\ logged_in
    /\ run.outcome = "report"

====
